---- MODULE Spec2Model ----
(***************************************************************************)
(* HMM shipping tracking automation (browser_auto.py).                     *)
(*                                                                         *)
(* The model follows fetch_hmm statement by statement: the trace file      *)
(* agent_action_steps.json, the choice between the replay and the fresh    *)
(* branch, the agent run with its two hooks and its step budget, the       *)
(* extraction of the final answer, save_actions, and the broad except      *)
(* clause.  The agent framework and the file system are the environment:   *)
(* what they hand back (page addresses, final answer, recorded actions,    *)
(* an exception, a failed write) is drawn from small sets.                 *)
(***************************************************************************)
EXTENDS Integers, Sequences, FiniteSets, TLC

\* ------------------------------------------------------------------ bounds

\* Longest action list result.model_actions() hands back.
MaxActions == 2

\* ------------------------------------------------------- program constants

\* max_steps of the replay run and of the fresh run.
ReplayMaxSteps == 20
FreshMaxSteps == 20

\* ------------------------------------------------------------------ values

BookingIds == {"SINI25432400", "HMMU0000001"}

TargetUrl == "http://www.seacargotracking.net/"

Sentinel == "No results found"

RetryTask == "Retry to complete the original task"

\* Texts the agent may report as its final answer ("" is an empty answer).
AnswerTexts == {"", "Voyage: V1, Arrival: D1", "Voyage: V2, Arrival: D2"}

\* Python values: a tag and a printed form.
PyInt(n) == [t |-> "int", v |-> n]
PyStr(s) == [t |-> "str", v |-> s]
PyElement == [t |-> "DOMHistoryElement", v |-> "el"]

IE == "interacted_element"

Pair(k, v) == [k |-> k, v |-> v]

\* Action records as model_actions() reports them: a dict in insertion order.
SampleRecords ==
    { << Pair("click_element_by_index", PyInt("1")), Pair(IE, PyElement) >>,
      << Pair(IE, PyElement), Pair("input_text", PyStr("SINI")) >>,
      << Pair("input_text", PyStr("HMMU")), Pair("click_element_by_index", PyInt("2")),
         Pair(IE, PyElement) >>,
      << Pair(IE, PyElement) >>,
      << >> }

RECURSIVE ListsUpTo(_, _)
ListsUpTo(S, n) ==
    IF n = 0 THEN { << >> }
    ELSE LET shorter == ListsUpTo(S, n - 1)
         IN  shorter \cup { Append(l, r) : l \in { x \in shorter : Len(x) = n - 1 }, r \in S }

\* Page addresses, as sequences of characters.
Urls ==
    { << "/", "o", "k" >>,
      << "/", "e", "r", "r", "o" >>,
      << "/", "E", "r", "r", "o", "r" >>,
      << "/", "F", "A", "I", "L", "E", "D" >>,
      << "/", "i", "n", "v", "a", "l", "i", "d", "-", "u", "n", "a", "b", "l", "e" >>,
      << "/", "I", "n", "c", "o", "r", "r", "e", "c", "t" >> }

NoUrl == << >>


\* ---------------------------------------------------------- retry_hook parts

\* str.lower() on one character.
LowerChar(c) ==
    CASE c = "A" -> "a" [] c = "B" -> "b" [] c = "C" -> "c" [] c = "D" -> "d"
      [] c = "E" -> "e" [] c = "F" -> "f" [] c = "G" -> "g" [] c = "H" -> "h"
      [] c = "I" -> "i" [] c = "J" -> "j" [] c = "K" -> "k" [] c = "L" -> "l"
      [] c = "M" -> "m" [] c = "N" -> "n" [] c = "O" -> "o" [] c = "P" -> "p"
      [] c = "Q" -> "q" [] c = "R" -> "r" [] c = "S" -> "s" [] c = "T" -> "t"
      [] c = "U" -> "u" [] c = "V" -> "v" [] c = "W" -> "w" [] c = "X" -> "x"
      [] c = "Y" -> "y" [] c = "Z" -> "z" [] OTHER -> c

\* current_url.lower()
Lower(s) == [i \in 1..Len(s) |-> LowerChar(s[i])]

\* `sub in s` on strings.
Contains(s, sub) ==
    \E i \in 0..(Len(s) - Len(sub)) : SubSeq(s, i + 1, i + Len(sub)) = sub

error_indicators ==
    << << "e", "r", "r", "o", "r" >>,
       << "f", "a", "i", "l", "e", "d" >>,
       << "i", "n", "v", "a", "l", "i", "d" >>,
       << "i", "n", "c", "o", "r", "r", "e", "c", "t" >>,
       << "u", "n", "a", "b", "l", "e" >> >>

\* Mutant: the address is searched as it is, without lower().
NeedsRetryCaseSensitive(current_url) ==
    \E n \in 1..Len(error_indicators) : Contains(current_url, error_indicators[n])

\* any(err in current_url.lower() for err in error_indicators)
NeedsRetry(current_url) ==
    \E n \in 1..Len(error_indicators) : Contains(Lower(current_url), error_indicators[n])

\* The tasks retry_hook adds to the agent that already holds `tasks`.
RetryHookAdds(tasks, current_url) ==
    IF NeedsRetry(current_url) THEN Append(tasks, RetryTask) ELSE tasks

\* -------------------------------------------------------- save_actions parts

\* Mutant: the inner loop without its break appends every action entry.
RECURSIVE FirstActionNoBreak(_)
FirstActionNoBreak(action) ==
    IF action = << >> THEN << >>
    ELSE IF Head(action).k # IE
         THEN << << Head(action) >> >> \o FirstActionNoBreak(Tail(action))
         ELSE FirstActionNoBreak(Tail(action))

\* The inner loop of save_actions over one record: the first entry whose key
\* is not 'interacted_element' is appended and the loop breaks; a record with
\* no such entry appends nothing.
RECURSIVE FirstAction(_)
FirstAction(action) ==
    IF action = << >> THEN << >>
    ELSE IF Head(action).k # IE THEN << << Head(action) >> >>
    ELSE FirstAction(Tail(action))

\* The outer loop: initial_actions as save_actions builds it.
RECURSIVE BuildInitialActions(_)
BuildInitialActions(stored) ==
    IF stored = << >> THEN << >>
    ELSE FirstAction(Head(stored)) \o BuildInitialActions(Tail(stored))

\* json.dump raises TypeError on a value that is not JSON-serializable.
Serializable(pv) == pv.t \in {"int", "str"}

AllSerializable(actions) ==
    \A i \in 1..Len(actions) : \A n \in 1..Len(actions[i]) : Serializable(actions[i][n].v)

\* json.dump: dicts become objects (members in order), ints numbers, strs strings.
JsonValue(pv) == [j |-> IF pv.t = "int" THEN "number" ELSE "string", v |-> pv.v]

JsonObject(d) == [n \in 1..Len(d) |-> [name |-> d[n].k, value |-> JsonValue(d[n].v)]]

JsonDump(actions) == [i \in 1..Len(actions) |-> JsonObject(actions[i])]

\* json.load: the inverse reading of a complete document.
PyValue(jv) == [t |-> IF jv.j = "number" THEN "int" ELSE "str", v |-> jv.v]

PyDict(o) == [n \in 1..Len(o) |-> Pair(o[n].name, PyValue(o[n].value))]

JsonLoad(doc) == [i \in 1..Len(doc) |-> PyDict(doc[i])]

\* The trace file: absent, a complete JSON document, or an incomplete write
\* (open(..., "w") truncated it and json.dump did not finish).
AbsentFile == [kind |-> "absent", doc |-> << >>]
TextFile(doc) == [kind |-> "text", doc |-> doc]
PartialFile == [kind |-> "partial", doc |-> << >>]

\* Mutant: a file that cannot be parsed is taken for a missing one.
ExistsAndParses(f) == f.kind = "text"

\* steps_file.exists()
Exists(f) == f.kind # "absent"

\* ------------------------------------------------------------------- tasks

\* The f-strings, as the sequence of their literal and interpolated segments.
ReplayTask(b) ==
    << "Given an HMM booking ID ", b,
       ", retrieve voyage and arrival from HMM Shipping line." >>

ReplayContext(b) ==
    << "Replaying previous actions with new booking ID ", b,
       " and return the new voyage number and arrival date in the format Voyage: <voyage_number>, Arrival: <arrival_date>" >>

FreshTask(b) ==
    << "Your task: Given an HMM booking ID ", b,
       ", retrieve voyage and arrival from HMM Shipping line. First, navigate to exactly website: ",
       TargetUrl,
       " Scroll down to find and navigate to the link HYUNDAI Merchant Marine (HMM) and stay on that link ...",
       " Only return the Final Answer in the format Voyage: <voyage_number>, Arrival: <arrival_date>" >>

\* `piece` occurs in the text built from `segments`.
Mentions(segments, piece) == \E i \in 1..Len(segments) : segments[i] = piece

\* An optional text (result.final_result()) and an optional action list.
None == [some |-> FALSE, v |-> ""]
Some(x) == [some |-> TRUE, v |-> x]
NoActions == [some |-> FALSE, v |-> << >>]
SomeActions(l) == [some |-> TRUE, v |-> l]

\* Python truthiness of result.final_result(): None and "" are falsy.
Truthy(r) == r.some /\ r.v # ""


\* ------------------------------------------------------------------- state

VARIABLES
    pc,               \* where the invocation of fetch_hmm stands
    booking,          \* booking_id
    mode,             \* "replay" / "fresh", from steps_file.exists(); "none" before
    file,             \* agent_action_steps.json
    fileAtStart,      \* the file as the invocation found it (observation only)
    initial_actions,  \* what json.load returned (replay branch)
    agent_task,       \* Agent(task=...)
    agent_context,    \* Agent(message_context=...)
    agent_initial,    \* Agent(initial_actions=...), None when not passed
    added,            \* the tasks add_new_task has put on the agent
    runs,             \* calls of agent.run in this invocation
    max_steps,        \* the step budget handed to agent.run
    steps,            \* steps the running agent has taken
    url,              \* page.url of the current page
    is_done,          \* the agent's last step was a `done` action
    done_text,        \* the text of that `done` action
    final_result,     \* result.final_result()
    stored_actions,   \* result.model_actions()
    ret,              \* what the caller got back
    exc,              \* the exception raised in this invocation, "none" if none
    raisedAt          \* the statement that raised it

vars ==
    << pc, booking, mode, file, fileAtStart, initial_actions, agent_task,
       agent_context, agent_initial, added, runs, max_steps, steps, url,
       is_done, done_text, final_result, stored_actions, ret, exc, raisedAt >>

agentVars == << agent_task, agent_context, agent_initial, added >>
runVars == << runs, max_steps, steps, url, is_done, done_text >>
resultVars == << final_result, stored_actions >>
excVars == << exc, raisedAt >>

Unset == [kind |-> "unset", v |-> ""]
RetNone == [kind |-> "none", v |-> ""]
RetStr(s) == [kind |-> "str", v |-> s]

\* Statements inside the try block of fetch_hmm.
TryPcs ==
    { "check", "load", "mk_replay", "mk_fresh", "run_replay", "run_fresh", "loop",
      "step", "hook", "extract_replay", "extract_fresh", "model_actions", "save",
      "return_fresh" }

\* The invocation is over: fetch_hmm returned, or an exception left it.
Finished == pc \in {"returned", "propagated"}

Init ==
    /\ pc = "idle"
    /\ booking = ""
    /\ mode = "none"
    /\ file = AbsentFile
    /\ fileAtStart = AbsentFile
    /\ initial_actions = NoActions
    /\ agent_task = << >>
    /\ agent_context = << >>
    /\ agent_initial = NoActions
    /\ added = << >>
    /\ runs = 0
    /\ max_steps = 0
    /\ steps = 0
    /\ url = NoUrl
    /\ is_done = FALSE
    /\ done_text = ""
    /\ final_result = None
    /\ stored_actions = << >>
    /\ ret = Unset
    /\ exc = "none"
    /\ raisedAt = ""

\* The stack unwinds out of agent.run (if it was running): the loop's locals
\* are gone and the browser session is closed.
Unwind ==
    /\ steps' = 0
    /\ max_steps' = 0
    /\ url' = NoUrl
    /\ is_done' = FALSE
    /\ done_text' = ""
    /\ UNCHANGED runs

\* An exception of class Exception raised inside the try block: control goes
\* to the except clause.
Raise ==
    /\ exc' = "Exception"
    /\ raisedAt' = pc
    /\ pc' = "except"
    /\ Unwind

\* ----------------------------------------------------------------- actions

\* main: result = await fetch_hmm(booking_id); every local starts afresh.
Call(b) ==
    /\ pc \in {"idle", "returned", "propagated"}
    /\ pc' = "llm"
    /\ booking' = b
    /\ mode' = "none"
    /\ fileAtStart' = file
    /\ initial_actions' = NoActions
    /\ agent_task' = << >>
    /\ agent_context' = << >>
    /\ agent_initial' = NoActions
    /\ added' = << >>
    /\ runs' = 0
    /\ max_steps' = 0
    /\ steps' = 0
    /\ url' = NoUrl
    /\ is_done' = FALSE
    /\ done_text' = ""
    /\ final_result' = None
    /\ stored_actions' = << >>
    /\ ret' = Unset
    /\ exc' = "none"
    /\ raisedAt' = ""
    /\ UNCHANGED file

\* llm = ChatGoogle(...): before the try block, so a failure leaves fetch_hmm.
InitLLM ==
    /\ pc = "llm"
    /\ \/ /\ pc' = "check"
          /\ UNCHANGED excVars
       \/ /\ pc' = "propagated"
          /\ exc' = "Exception"
          /\ raisedAt' = "llm"
    /\ UNCHANGED << booking, mode, file, fileAtStart, initial_actions, agentVars,
                    runVars, resultVars, ret >>

\* if steps_file.exists():
CheckFile ==
    /\ pc = "check"
    /\ mode' = IF Exists(file) THEN "replay" ELSE "fresh"
    /\ pc' = IF Exists(file) THEN "load" ELSE "mk_fresh"
    /\ UNCHANGED << booking, file, fileAtStart, initial_actions, agentVars, runVars,
                    resultVars, ret, excVars >>

\* with open(steps_file) as f: initial_actions = json.load(f)
LoadTrace ==
    /\ pc = "load"
    /\ IF file.kind = "text"
       THEN /\ initial_actions' = SomeActions(JsonLoad(file.doc))
            /\ pc' = "mk_replay"
            /\ UNCHANGED << runVars, excVars >>
       ELSE /\ Raise
            /\ UNCHANGED initial_actions
    /\ UNCHANGED << booking, mode, file, fileAtStart, agentVars, resultVars, ret >>

\* Mutant: the replay agent is built without initial_actions.
MakeAgentReplayUnseeded ==
    /\ pc = "mk_replay"
    /\ agent_task' = ReplayTask(booking)
    /\ agent_context' = ReplayContext(booking)
    /\ agent_initial' = NoActions
    /\ pc' = "run_replay"
    /\ UNCHANGED << booking, mode, file, fileAtStart, initial_actions, added, runVars,
                    resultVars, ret, excVars >>

\* agent = Agent(task=..., message_context=..., initial_actions=initial_actions, llm=llm)
MakeAgentReplay ==
    /\ pc = "mk_replay"
    /\ \/ /\ agent_task' = ReplayTask(booking)
          /\ agent_context' = ReplayContext(booking)
          /\ agent_initial' = initial_actions
          /\ pc' = "run_replay"
          /\ UNCHANGED << runVars, excVars >>
       \/ /\ Raise
          /\ UNCHANGED << agent_task, agent_context, agent_initial >>
    /\ UNCHANGED << booking, mode, file, fileAtStart, initial_actions, added,
                    resultVars, ret >>

\* agent = Agent(task=task, llm=llm)
MakeAgentFresh ==
    /\ pc = "mk_fresh"
    /\ \/ /\ agent_task' = FreshTask(booking)
          /\ agent_context' = << >>
          /\ agent_initial' = NoActions
          /\ pc' = "run_fresh"
          /\ UNCHANGED << runVars, excVars >>
       \/ /\ Raise
          /\ UNCHANGED << agent_task, agent_context, agent_initial >>
    /\ UNCHANGED << booking, mode, file, fileAtStart, initial_actions, added,
                    resultVars, ret >>

\* agent.run(on_step_start=..., on_step_end=..., max_steps=limit) is entered.
EnterRun(limit) ==
    /\ runs' = runs + 1
    /\ max_steps' = limit
    /\ steps' = 0
    /\ pc' = "loop"
    /\ UNCHANGED << booking, mode, file, fileAtStart, initial_actions, agentVars, url,
                    is_done, done_text, resultVars, ret, excVars >>

RunReplay ==
    /\ pc = "run_replay"
    /\ EnterRun(ReplayMaxSteps)

\* Mutant: the fresh run is started with five times the budget (the
\* framework's own default when max_steps is left out).
RunFreshDefaultBudget ==
    /\ pc = "run_fresh"
    /\ EnterRun(5 * FreshMaxSteps)

RunFresh ==
    /\ pc = "run_fresh"
    /\ EnterRun(FreshMaxSteps)


\* The framework's loop goes on: the agent is not done and the budget lasts.
BudgetLeft == ~is_done /\ steps < max_steps

\* anti_detection_hook, awaited before a step while the budget lasts: it
\* fetches the page, sleeps and sometimes moves the mouse; nothing fetch_hmm
\* reads changes.  Fetching the page can fail.
StepStart ==
    /\ pc = "loop"
    /\ BudgetLeft
    /\ \/ /\ pc' = "step"
          /\ UNCHANGED << runVars, excVars >>
       \/ Raise
    /\ UNCHANGED << booking, mode, file, fileAtStart, initial_actions, agentVars,
                    resultVars, ret >>

\* One step of the agent: the page may move to another address, and the step
\* may be a `done` action carrying the final answer.  A step can fail.
AgentStep ==
    /\ pc = "step"
    /\ \/ /\ steps' = steps + 1
          /\ \E u \in Urls : url' = u
          /\ \/ /\ is_done' = FALSE
                /\ done_text' = ""
             \/ /\ is_done' = TRUE
                /\ \E a \in AnswerTexts : done_text' = a
          /\ pc' = "hook"
          /\ UNCHANGED << runs, max_steps, excVars >>
       \/ Raise
    /\ UNCHANGED << booking, mode, file, fileAtStart, initial_actions, agentVars,
                    resultVars, ret >>

\* retry_hook, awaited after the step.
StepEnd ==
    /\ pc = "hook"
    /\ \/ /\ added' = RetryHookAdds(added, url)
          /\ pc' = "loop"
          /\ UNCHANGED << runVars, excVars >>
       \/ /\ Raise
          /\ UNCHANGED added
    /\ UNCHANGED << booking, mode, file, fileAtStart, initial_actions, agent_task,
                    agent_context, agent_initial, resultVars, ret >>

\* agent.run returns: the agent is done or the budget is used up.  The browser
\* session is closed and the loop's locals are gone.
RunReturn ==
    /\ pc = "loop"
    /\ ~BudgetLeft
    /\ final_result' = IF is_done THEN Some(done_text) ELSE None
    /\ pc' = IF mode = "replay" THEN "extract_replay" ELSE "extract_fresh"
    /\ steps' = 0
    /\ max_steps' = 0
    /\ url' = NoUrl
    /\ is_done' = FALSE
    /\ done_text' = ""
    /\ UNCHANGED << booking, mode, file, fileAtStart, initial_actions, agentVars, runs,
                    stored_actions, ret, excVars >>

\* Mutant: the replay branch saves the actions of its run as the fresh one does.
ExtractReplaySaving ==
    /\ pc = "extract_replay"
    /\ ret' = IF Truthy(final_result) THEN RetStr(final_result.v) ELSE RetStr(Sentinel)
    /\ pc' = "returned"
    /\ \E l \in ListsUpTo(SampleRecords, MaxActions) :
          /\ stored_actions' = l
          /\ file' = IF Truthy(final_result)
                     THEN TextFile(JsonDump(BuildInitialActions(l)))
                     ELSE file
    /\ UNCHANGED << booking, mode, fileAtStart, initial_actions, agentVars, runVars,
                    final_result, excVars >>

\* Replay branch: final_result = result.final_result(); return it or the sentinel.
ExtractReplay ==
    /\ pc = "extract_replay"
    /\ ret' = IF Truthy(final_result) THEN RetStr(final_result.v) ELSE RetStr(Sentinel)
    /\ pc' = "returned"
    /\ UNCHANGED << booking, mode, file, fileAtStart, initial_actions, agentVars,
                    runVars, resultVars, excVars >>

\* Mutant: the fresh branch saves the actions before it looks at the answer.
ExtractFreshAlwaysSaves ==
    /\ pc = "extract_fresh"
    /\ pc' = "model_actions"
    /\ UNCHANGED << booking, mode, file, fileAtStart, initial_actions, agentVars,
                    runVars, resultVars, ret, excVars >>

\* Fresh branch: a truthy answer goes on to be saved, otherwise the sentinel.
ExtractFresh ==
    /\ pc = "extract_fresh"
    /\ IF Truthy(final_result)
       THEN /\ pc' = "model_actions"
            /\ UNCHANGED ret
       ELSE /\ pc' = "returned"
            /\ ret' = RetStr(Sentinel)
    /\ UNCHANGED << booking, mode, file, fileAtStart, initial_actions, agentVars,
                    runVars, resultVars, excVars >>

\* stored_actions = result.model_actions()
ModelActions ==
    /\ pc = "model_actions"
    /\ \E l \in ListsUpTo(SampleRecords, MaxActions) : stored_actions' = l
    /\ pc' = "save"
    /\ UNCHANGED << booking, mode, file, fileAtStart, initial_actions, agentVars,
                    runVars, final_result, ret, excVars >>

\* save_actions(stored_actions): build the reduced list, open the file for
\* writing (which truncates it) and json.dump the list.  open can fail and
\* leave the file as it was; the write can fail part-way (an I/O error, or a
\* value json cannot serialize) and leave an incomplete file.
SaveActions ==
    /\ pc = "save"
    /\ LET reduced == BuildInitialActions(stored_actions)
       IN  \/ /\ AllSerializable(reduced)
              /\ file' = TextFile(JsonDump(reduced))
              /\ pc' = "return_fresh"
              /\ UNCHANGED << runVars, excVars >>
           \/ /\ Raise
              /\ UNCHANGED file
           \/ /\ Raise
              /\ file' = PartialFile
    /\ UNCHANGED << booking, mode, fileAtStart, initial_actions, agentVars,
                    resultVars, ret >>

\* return final_result
ReturnFresh ==
    /\ pc = "return_fresh"
    /\ ret' = RetStr(final_result.v)
    /\ pc' = "returned"
    /\ UNCHANGED << booking, mode, file, fileAtStart, initial_actions, agentVars,
                    runVars, resultVars, excVars >>

\* Mutant: the except clause returns the sentinel.
ExceptReturnsSentinel ==
    /\ pc = "except"
    /\ ret' = RetStr(Sentinel)
    /\ pc' = "returned"
    /\ UNCHANGED << booking, mode, file, fileAtStart, initial_actions, agentVars,
                    runVars, resultVars, excVars >>

\* except Exception as e: print(...); the function then ends without a
\* return statement, so the caller gets None.
Except ==
    /\ pc = "except"
    /\ ret' = RetNone
    /\ pc' = "returned"
    /\ UNCHANGED << booking, mode, file, fileAtStart, initial_actions, agentVars,
                    runVars, resultVars, excVars >>

\* A KeyboardInterrupt (Ctrl-C) while the try block runs: it is no Exception,
\* so the except clause of fetch_hmm and that of main let it through to the
\* handler under __main__.
Interrupt ==
    /\ pc \in TryPcs
    /\ exc' = "KeyboardInterrupt"
    /\ raisedAt' = pc
    /\ pc' = "propagated"
    /\ Unwind
    /\ \/ UNCHANGED file
       \/ /\ pc = "save"
          /\ file' = PartialFile
    /\ UNCHANGED << booking, mode, fileAtStart, initial_actions, agentVars,
                    resultVars, ret >>

Next ==
    \/ \E b \in BookingIds : Call(b)
    \/ InitLLM
    \/ CheckFile
    \/ LoadTrace
    \/ MakeAgentReplay
    \/ MakeAgentFresh
    \/ RunReplay
    \/ RunFresh
    \/ StepStart
    \/ AgentStep
    \/ StepEnd
    \/ RunReturn
    \/ ExtractReplay
    \/ ExtractFresh
    \/ ModelActions
    \/ SaveActions
    \/ ReturnFresh
    \/ Except
    \/ Interrupt

Spec == Init /\ [][Next]_vars


\* ------------------------------------------------------------------ claims

\* There is a trace file, whatever it holds.
Present(f) == f # AbsentFile

\* C1 (as stated): whenever fetch_hmm hands a value back, it is the agent's
\* non-empty final answer or the sentinel "No results found"; never None.
C1_ReturnShape ==
    pc = "returned" =>
        /\ ret.kind = "str"
        /\ \/ ret.v = Sentinel
           \/ Truthy(final_result) /\ ret.v = final_result.v

C3_ReplayKeepsFile ==
    [][ /\ (mode' = "replay" /\ fileAtStart'.kind = "text") => file' = fileAtStart'
        /\ file' # file =>
              /\ pc = "save"
              /\ mode = "fresh"
              /\ ~Present(fileAtStart)
              /\ Truthy(final_result) ]_vars

C3_Witness ==
    /\ pc = "returned"
    /\ mode = "replay"
    /\ fileAtStart.kind = "text"
    /\ Len(fileAtStart.doc) > 0
    /\ exc = "Exception"
    /\ raisedAt = "hook"
    /\ file = fileAtStart

\* The records of `stored` that hold an action key at all.
HasActionKey(r) == \E n \in 1..Len(r) : r[n].k # IE

\* The first entry of r whose key is not 'interacted_element'.
FirstActionEntry(r) ==
    r[CHOOSE n \in 1..Len(r) : r[n].k # IE /\ \A m \in 1..(n - 1) : r[m].k = IE]

\* C4: once save_actions has written, the file holds one record per input
\* record that has an action key, in order; each has exactly one key, it is
\* not 'interacted_element', and it is the first action key of its input
\* record with that key's parameters.
C4_SavedRecords ==
    pc = "return_fresh" =>
        LET inputs == SelectSeq(stored_actions, HasActionKey)
            written == JsonLoad(file.doc)
        IN  /\ file.kind = "text"
            /\ Len(written) = Len(inputs)
            /\ \A i \in 1..Len(written) :
                  /\ Len(written[i]) = 1
                  /\ written[i][1].k # IE
                  /\ written[i][1] = FirstActionEntry(inputs[i])

C4_Witness ==
    /\ pc = "return_fresh"
    /\ Len(stored_actions) = 2
    /\ Len(stored_actions[1]) = 2
    /\ Head(stored_actions[1]).k = IE
    /\ Len(stored_actions[2]) = 3
    /\ Len(file.doc) = 2

\* The upper-case form of a lower-case letter of the indicator words.
UpperChar(c) ==
    CASE c = "a" -> "A" [] c = "b" -> "B" [] c = "c" -> "C" [] c = "d" -> "D"
      [] c = "e" -> "E" [] c = "f" -> "F" [] c = "i" -> "I" [] c = "l" -> "L"
      [] c = "n" -> "N" [] c = "o" -> "O" [] c = "r" -> "R" [] c = "t" -> "T"
      [] c = "u" -> "U" [] c = "v" -> "V" [] OTHER -> c

\* The address holds `word`, in any mix of cases, at some offset.
HoldsWord(address, word) ==
    \E off \in 0..(Len(address) - Len(word)) :
        \A k \in 1..Len(word) : address[off + k] \in {word[k], UpperChar(word[k])}

HoldsIndicator(address) ==
    \E n \in 1..Len(error_indicators) : HoldsWord(address, error_indicators[n])

\* C5: a completed call of retry_hook adds exactly one retry task when the
\* address holds one or more of the five words in any case, and leaves the
\* agent as it was when it holds none.
C5_RetryHook ==
    [][ (pc = "hook" /\ pc' = "loop") =>
            IF HoldsIndicator(url)
            THEN /\ added' = Append(added, RetryTask)
                 /\ UNCHANGED << agent_task, agent_context, agent_initial >>
            ELSE UNCHANGED agentVars ]_vars

\* Two words match in the address and the hook has added one task for it.
C5_Witness ==
    /\ pc = "loop"
    /\ steps = 1
    /\ HoldsWord(url, error_indicators[3])
    /\ HoldsWord(url, error_indicators[5])
    /\ Len(added) = 1

RunTrace == TextFile(JsonDump(BuildInitialActions(stored_actions)))

C8_StepCap ==
    /\ steps <= 20
    /\ Len(added) <= 20
    /\ Len(added) <= IF pc \in {"loop", "step", "hook"} THEN steps ELSE 20

C8_Witness ==
    /\ pc = "loop"
    /\ steps = 20
    /\ Len(added) = 20

\* C9 (as stated): when the agent of a fresh run reported a non-empty final
\* answer, fetch_hmm returns that answer and the file holds the complete
\* serialized trace of the run.
C9_AnswerAndTraceKept ==
    pc = "returned" /\ mode = "fresh" /\ Truthy(final_result) =>
        /\ ret = RetStr(final_result.v)
        /\ file = RunTrace

\* C10: an existing file is never changed again, and every invocation that
\* finds it takes the replay branch, also when it cannot be parsed.
C10_FileFrozen ==
    [][ /\ Present(file) => file' = file
        /\ (mode' # "none" /\ Present(fileAtStart')) => mode' = "replay" ]_vars

C10_Witness ==
    /\ pc = "returned"
    /\ fileAtStart = PartialFile
    /\ file = PartialFile
    /\ mode = "replay"
    /\ booking = "HMMU0000001"
    /\ ret = RetNone

====
